---- MODULE Spec2Model ----
(***************************************************************************)
(* Alert lifecycle of MyAITgBot: AlertSystem (alert_system.py), the price  *)
(* batch of DataFetcher.get_multiple_prices (data_fetcher.py) and the      *)
(* background loop CryptoAIBot.monitor_alerts (bot.py), as one asyncio     *)
(* event loop: a step is the code between two awaits.                      *)
(***************************************************************************)
EXTENDS Integers, Sequences, FiniteSets, TLC

\* ------------------------------------------------------------------ bounds
MaxId == 2            \* add_alert is called while next_id <= MaxId
MaxTicks == 1         \* the clock advances at most MaxTicks times
TickHours == 25       \* hours the clock advances in one tick
MaxPrice == 3         \* observed prices are 0..MaxPrice (0: zero or missing)
MaxSaveTasks == 2     \* save_alerts tasks in flight at once
MaxStepsAfterLoad == 2 \* steps followed after the process has started again

\* --------------------------------------------------------------- constants
GraceSeconds == 86400
SecondsPerHour == 3600
NonePrice == -1       \* a price of None: comparing it with a number raises TypeError

\* ----------------------------------------------------------------- inputs
IntOwner(n) == [t |-> "int", v |-> n]
Owners == {IntOwner(1), IntOwner(2)}
\* the users who blocked the bot
Blocked == {IntOwner(2)}
Coins == {"BTC", "ETH"}
Threshold == 2
\* the /setalert commands users send: (user_id, coin, condition, price)
Requests == {<<IntOwner(1), "BTC", "above", Threshold>>,
             <<IntOwner(2), "BTC", "below", Threshold>>,
             <<IntOwner(2), "ETH", "above", Threshold>>,
             <<IntOwner(1), "ETH", "below", Threshold>>}
ObservedPrices == (0..MaxPrice) \cup {NonePrice}
\* a user_id that is a str: the text of the number n
StrOwner(n) == [t |-> "str", v |-> n]
\* the user ids a caller of the store passes: ints, and the str "1"
ApiOwners == Owners \cup {StrOwner(1)}
\* add_alert calls of a caller that passes the symbol and the user id as it got them
ApiRequests == {<<IntOwner(1), "btc", "above", Threshold>>,
                <<IntOwner(2), "BTC", "below", Threshold>>,
                <<IntOwner(1), "ETH", "below", Threshold>>,
                <<StrOwner(1), "BTC", "above", Threshold>>}
\* the /setalert messages users type: (user_id, context.args)
Commands == {<<IntOwner(1), <<"btc", "ABOVE", "2">>>>,
             <<IntOwner(2), <<"Eth", "below", "2">>>>,
             <<IntOwner(2), <<"BTC", "above", "-2">>>>,
             <<IntOwner(1), <<"ETH", "sideways", "2">>>>,
             <<IntOwner(1), <<"ETH", "below", "abc">>>>,
             <<IntOwner(1), <<"ETH", "below">>>>}

VARIABLES
    alerts,          \* self.alerts: the dict, as the sequence of its items [key, list]
    next_id,         \* self.next_id
    now,             \* datetime.now(), in hours
    pc,              \* position of monitor_alerts
    coins,           \* get_multiple_prices: the coins still to fetch
    current_prices,  \* get_multiple_prices: prices, coin -> price
    triggered,       \* check_alerts: the returned list, then the rest the loop still notifies
    saveTasks,       \* the save_alerts tasks in flight, in creation order
    file,            \* the storage file
    returned,        \* history: the ids add_alert returned, in order
    reported,        \* history: id -> number of sweeps that returned it (capped at 2)
    startCoins,      \* history: symbols of the non-triggered alerts when the sweep began
    fetchCount,      \* history: coin -> get_crypto_data calls of the current sweep
    fileMem,         \* history: the memory a clean write serialized, or NoMem
    attempts,        \* history: the ids send_message was awaited for, in order
    sendFailed,      \* history: the ids of the current batch whose send_message raised
    loop,            \* history: whether monitor_alerts began a sweep, and its sleeps since
    life             \* history: whether the process started again, and the steps since

vars == <<alerts, next_id, now, pc, coins, current_prices, triggered,
          saveTasks, file, returned, reported, startCoins, fetchCount, fileMem,
          attempts, sendFailed, loop, life>>

\* ------------------------------------------------------------ dict helpers
\* str(user_id): the decimal string of an int, a str itself
Str(x) == [t |-> "str", v |-> x.v]

\* a store that indexes self.alerts with user_id itself
BucketKeyRaw(user_id) == user_id

\* a store that keeps every owner's alerts in one bucket
BucketKeyShared(user_id) == [t |-> "str", v |-> 0]

\* the key add_alert, get_user_alerts and remove_alert index self.alerts with
BucketKey(user_id) == Str(user_id)

KeyIndex(d, k) == IF \E b \in DOMAIN d : d[b].key = k
                  THEN CHOOSE b \in DOMAIN d : d[b].key = k
                  ELSE 0

\* dict.get(k, [])
DictGet(d, k) == IF KeyIndex(d, k) = 0 THEN <<>> ELSE d[KeyIndex(d, k)].list

\* every alert of the dict, in iteration order
RECURSIVE Flatten(_)
Flatten(d) == IF d = <<>> THEN <<>> ELSE Head(d).list \o Flatten(Tail(d))

AllAlerts(d) == {Flatten(d)[k] : k \in DOMAIN Flatten(d)}

Range(s) == {s[k] : k \in DOMAIN s}

NoFile == [kind |-> "missing"]
NoMem == [kind |-> "none"]
FirstLife == [restarted |-> FALSE, steps |-> 0]
\* monitor_alerts has just been scheduled: no sweep yet, no sleep yet
LoopStarts == [swept |-> FALSE, sleeps |-> 0]

\* a step counts against MaxStepsAfterLoad once the process has started again
Counted ==
    /\ life.restarted => life.steps < MaxStepsAfterLoad
    /\ life' = IF life.restarted THEN [life EXCEPT !.steps = @ + 1] ELSE life

\* ------------------------------------------------------------- persistence
\* json.dumps writes a dict key as a string: an int key becomes its decimal string
JsonKey(k) == [t |-> "str", v |-> k.v]

\* json.dumps(data): data['alerts'] is the dict itself, data['next_id'] the captured int
JsonDumps(d, nid) ==
    [alerts |-> [b \in DOMAIN d |-> [key |-> JsonKey(d[b].key), list |-> d[b].list]],
     next_id |-> nid]

\* lines of json.dumps(data, indent=2): the length of the text written
JsonLines(doc) ==
    LET BucketLines(l) == IF l = <<>> THEN 1 ELSE 2 + 9 * Len(l)
        RECURSIVE Sum(_)
        Sum(bs) == IF bs = <<>> THEN 0 ELSE BucketLines(Head(bs).list) + Sum(Tail(bs))
    IN  IF doc.alerts = <<>> THEN 4 ELSE 5 + Sum(doc.alerts)

EmptyDoc == [alerts |-> <<>>, next_id |-> 0]

\* open(storage_file, 'w'): the file exists and is empty
Truncated == [kind |-> "text", valid |-> FALSE, doc |-> EmptyDoc, size |-> 0]

\* f.write(text) at offset 0 of a file another task may have written since this
\* task opened it: a longer old text leaves its tail behind the new one
Overwrite(f, doc) ==
    [kind |-> "text",
     valid |-> JsonLines(doc) >= f.size,
     doc |-> IF JsonLines(doc) >= f.size THEN doc ELSE EmptyDoc,
     size |-> IF JsonLines(doc) >= f.size THEN JsonLines(doc) ELSE f.size]

\* json.load of the file's text: the dict json.dumps wrote, its keys strings
JsonLoads(f) == f.doc

\* a load_alerts with no except block: the JSONDecodeError of json.load leaves
\* __init__ and ends the process
LoadedStoreNoExcept(f) ==
    IF f.kind = "text" /\ f.valid
    THEN [alerts |-> JsonLoads(f).alerts, next_id |-> JsonLoads(f).next_id,
          raised |-> FALSE]
    ELSE [alerts |-> <<>>, next_id |-> 1, raised |-> f.kind = "text"]

\* load_alerts on a fresh AlertSystem: the file's data; the alerts {} and next_id 1 of
\* __init__ when the file is missing; the same, set by the except block, when
\* json.load raises. Nothing is raised to __init__
LoadedStore(f) ==
    IF f.kind = "text" /\ f.valid
    THEN [alerts |-> JsonLoads(f).alerts, next_id |-> JsonLoads(f).next_id,
          raised |-> FALSE]
    ELSE [alerts |-> <<>>, next_id |-> 1, raised |-> FALSE]

\* asyncio.create_task(self.save_alerts()) and the task's first step, which the loop
\* runs as soon as the creating step yields: data = {'alerts': self.alerts (the dict
\* itself), 'next_id': self.next_id (its value now)}, then the await of aiofiles.open
CreateSaveTask(tasks, nid) == Append(tasks, [stage |-> "opening", next_id |-> nid])

RemoveAt(s, i) == [k \in 1..(Len(s) - 1) |-> IF k < i THEN s[k] ELSE s[k + 1]]

\* aiofiles.open(storage_file, 'w') completes
SaveOpen(i) ==
    /\ Counted
    /\ UNCHANGED <<attempts, sendFailed, loop>>
    /\ i \in DOMAIN saveTasks
    /\ saveTasks[i].stage = "opening"
    /\ saveTasks' = [saveTasks EXCEPT ![i].stage = "opened"]
    /\ file' = Truncated
    /\ fileMem' = NoMem
    /\ UNCHANGED <<alerts, next_id, now, pc, coins, current_prices, triggered,
                   returned, reported, startCoins, fetchCount>>

\* json.dumps(data, indent=2) and f.write complete
SaveWrite(i) ==
    /\ Counted
    /\ UNCHANGED <<attempts, sendFailed, loop>>
    /\ i \in DOMAIN saveTasks
    /\ saveTasks[i].stage = "opened"
    /\ file' = Overwrite(file, JsonDumps(alerts, saveTasks[i].next_id))
    /\ fileMem' = IF file'.valid /\ saveTasks[i].next_id = next_id
                  THEN [kind |-> "mem", alerts |-> alerts, next_id |-> next_id]
                  ELSE NoMem
    /\ saveTasks' = RemoveAt(saveTasks, i)
    /\ UNCHANGED <<alerts, next_id, now, pc, coins, current_prices, triggered,
                   returned, reported, startCoins, fetchCount>>

\* a save that answers a failure by reading the store back from the file
SaveFailRollsBack(i) ==
    /\ Counted
    /\ UNCHANGED <<attempts, sendFailed, loop>>
    /\ i \in DOMAIN saveTasks
    /\ saveTasks[i].stage \in {"opening", "opened"}
    /\ saveTasks' = RemoveAt(saveTasks, i)
    /\ alerts' = LoadedStore(file).alerts
    /\ next_id' = LoadedStore(file).next_id
    /\ UNCHANGED <<now, pc, coins, current_prices, triggered, file,
                   returned, reported, startCoins, fetchCount, fileMem>>

\* open or write raises: "Error saving alerts" is logged, the task ends
SaveFail(i) ==
    /\ Counted
    /\ UNCHANGED <<attempts, sendFailed, loop>>
    /\ i \in DOMAIN saveTasks
    /\ saveTasks[i].stage \in {"opening", "opened"}
    /\ saveTasks' = RemoveAt(saveTasks, i)
    /\ UNCHANGED <<alerts, next_id, now, pc, coins, current_prices, triggered, file,
                   returned, reported, startCoins, fetchCount, fileMem>>

\* ---------------------------------------------------------------- add_alert
\* a store that numbers a new alert after the alerts it holds
AllocIdByCount(nid, d) == Len(Flatten(d)) + 1

\* alert_id = self.next_id
AllocId(nid, d) == nid

\* self.alerts[str(user_id)].append(alert), the bucket created when absent
DictAppend(d, user_id, alert) ==
    LET k == BucketKey(user_id)
        d1 == IF KeyIndex(d, k) = 0 THEN Append(d, [key |-> k, list |-> <<>>]) ELSE d
        b == KeyIndex(d1, k)
    IN  [d1 EXCEPT ![b].list = Append(@, alert)]

add_alert(user_id, coin, condition, price) ==
    /\ Counted
    /\ UNCHANGED <<attempts, sendFailed, loop>>
    /\ next_id <= MaxId
    /\ Len(saveTasks) < MaxSaveTasks
    /\ LET alert_id == AllocId(next_id, alerts)
           alert == [id |-> alert_id, user_id |-> user_id, coin |-> coin,
                     condition |-> condition, price |-> price,
                     created_at |-> now, triggered |-> FALSE]
       IN  /\ next_id' = next_id + 1
           /\ alerts' = DictAppend(alerts, user_id, alert)
           /\ returned' = Append(returned, alert_id)
    /\ saveTasks' = CreateSaveTask(saveTasks, next_id')
    /\ UNCHANGED <<now, pc, coins, current_prices, triggered, file, reported,
                   startCoins, fetchCount, fileMem>>

\* ---------------------------------------------------------- get_user_alerts
\* a list of the owner's alerts that are still waiting for their price
get_user_alerts_pending(d, user_id) ==
    LET Pending(a) == ~a.triggered
    IN  SelectSeq(DictGet(d, BucketKey(user_id)), Pending)

\* self.alerts.get(str(user_id), [])
get_user_alerts(d, user_id) == DictGet(d, BucketKey(user_id))

\* ---------------------------------------------------------------- set_alert
\* str.upper() of the texts in Commands
Upper(s) == CASE s = "btc" -> "BTC"
              [] s = "Eth" -> "ETH"
              [] OTHER -> s

\* str.lower() of the texts in Commands
Lower(s) == CASE s = "ABOVE" -> "above"
              [] OTHER -> s

\* float(text) of the texts in Commands: the number, or ValueError
Float(s) == CASE s = "2" -> [raised |-> FALSE, v |-> 2]
              [] s = "-2" -> [raised |-> FALSE, v |-> 0 - 2]
              [] OTHER -> [raised |-> TRUE, v |-> 0]

\* set_alert up to the call of add_alert: the usage reply when fewer than three
\* arguments, "Please enter a valid price number" when float raises ValueError,
\* "Condition must be 'above' or 'below'" for another keyword; else the arguments of
\* add_alert
ParseSetAlert(args) ==
    IF Len(args) < 3
    THEN [accepted |-> FALSE, reply |-> "usage"]
    ELSE IF Float(args[3]).raised
    THEN [accepted |-> FALSE, reply |-> "price"]
    ELSE IF Lower(args[2]) \notin {"above", "below"}
    THEN [accepted |-> FALSE, reply |-> "condition"]
    ELSE [accepted |-> TRUE, reply |-> "set", coin |-> Upper(args[1]),
          condition |-> Lower(args[2]), price |-> Float(args[3]).v]

\* the /setalert handler: a rejected command changes nothing, an accepted one calls
\* add_alert
set_alert(user_id, args) ==
    LET parsed == ParseSetAlert(args)
    IN  IF parsed.accepted
        THEN add_alert(user_id, parsed.coin, parsed.condition, parsed.price)
        ELSE /\ Counted
             /\ UNCHANGED <<alerts, next_id, now, pc, coins, current_prices, triggered,
                            saveTasks, file, returned, reported, startCoins, fetchCount,
                            fileMem, attempts, sendFailed, loop>>

\* ------------------------------------------------------------- remove_alert
\* the first index of user_alerts whose alert has the id, 0 when none
FindAlert(user_alerts, alert_id) ==
    IF \E i \in DOMAIN user_alerts : user_alerts[i].id = alert_id
    THEN CHOOSE i \in DOMAIN user_alerts :
            /\ user_alerts[i].id = alert_id
            /\ \A j \in 1..(i - 1) : user_alerts[j].id # alert_id
    ELSE 0

\* a remove_alert that pops the last alert of the bucket: pop() for pop(i)
RemoveOutcomePopsLast(d, user_id, alert_id) ==
    LET k == BucketKey(user_id)
        user_alerts == DictGet(d, k)
        i == FindAlert(user_alerts, alert_id)
    IN  IF i # 0
        THEN [alerts |-> [d EXCEPT ![KeyIndex(d, k)].list = RemoveAt(@, Len(@))],
              save |-> TRUE, result |-> TRUE]
        ELSE [alerts |-> d, save |-> FALSE, result |-> FALSE]

\* what remove_alert(user_id, alert_id) does to self.alerts, whether it creates a
\* save task, and what it returns
RemoveOutcome(d, user_id, alert_id) ==
    LET k == BucketKey(user_id)
        user_alerts == DictGet(d, k)
        i == FindAlert(user_alerts, alert_id)
    IN  IF i # 0
        THEN [alerts |-> [d EXCEPT ![KeyIndex(d, k)].list = RemoveAt(@, i)],
              save |-> TRUE, result |-> TRUE]
        ELSE [alerts |-> d, save |-> FALSE, result |-> FALSE]

remove_alert(user_id, alert_id) ==
    LET out == RemoveOutcome(alerts, user_id, alert_id)
    IN  /\ Counted
        /\ UNCHANGED <<attempts, sendFailed, loop>>
        /\ out.save => Len(saveTasks) < MaxSaveTasks
        /\ alerts' = out.alerts
        /\ saveTasks' = IF out.save THEN CreateSaveTask(saveTasks, next_id) ELSE saveTasks
        /\ UNCHANGED <<next_id, now, pc, coins, current_prices, triggered, file,
                       returned, reported, startCoins, fetchCount, fileMem>>

\* ------------------------------------------------------------- check_alerts
\* coins_to_check: the coins of the alerts that are not triggered
CoinsToCheck(d) == {a.coin : a \in {x \in AllAlerts(d) : ~x.triggered}}

\* a list with one entry per non-triggered alert: no set in between
CoinsListPerAlert(d) ==
    LET Pending(a) == ~a.triggered
        l == SelectSeq(Flatten(d), Pending)
    IN  {[k \in DOMAIN l |-> l[k].coin]}

\* list(coins_to_check): the set in any order
CoinsList(d) ==
    LET S == CoinsToCheck(d)
    IN  {s \in [1..Cardinality(S) -> S] : Range(s) = S}

\* current_prices.get(coin, 0)
PriceOf(prices, coin) == IF coin \in DOMAIN prices THEN prices[coin] ELSE 0

\* a comparison that excludes the boundary
ConditionMetStrict(alert, current_price) ==
    \/ alert.condition = "above" /\ current_price > alert.price
    \/ alert.condition = "below" /\ current_price < alert.price

\* alert['condition'] == 'above' and current_price >= alert['price'], or
\* alert['condition'] == 'below' and current_price <= alert['price']
ConditionMet(alert, current_price) ==
    \/ alert.condition = "above" /\ current_price >= alert.price
    \/ alert.condition = "below" /\ current_price <= alert.price

\* the positions <<bucket, index>> of the dict in iteration order
Before(p, q) == p[1] < q[1] \/ (p[1] = q[1] /\ p[2] < q[2])

Positions(d) == UNION {{<<b, i>> : i \in DOMAIN d[b].list} : b \in DOMAIN d}

\* the positions where `current_price > 0` raises: a non-triggered alert whose price is None
RaisePositions(d, prices) ==
    {p \in Positions(d) : /\ ~d[p[1]].list[p[2]].triggered
                          /\ PriceOf(prices, d[p[1]].list[p[2]].coin) = NonePrice}

\* the evaluation loop reaches position p: nothing raised before it or at it
Reached(d, prices, p) ==
    \A q \in RaisePositions(d, prices) : Before(p, q)

\* an evaluation that does not skip the alerts already triggered
FiresAgain(d, prices, p) ==
    LET alert == d[p[1]].list[p[2]]
        current_price == PriceOf(prices, alert.coin)
    IN  /\ current_price > 0
        /\ ConditionMet(alert, current_price)

\* an evaluation without the `current_price > 0` test
FiresUnchecked(d, prices, p) ==
    LET alert == d[p[1]].list[p[2]]
        current_price == PriceOf(prices, alert.coin)
    IN  /\ Reached(d, prices, p)
        /\ ~alert.triggered
        /\ ConditionMet(alert, current_price)

\* the alert at p is set triggered by this sweep
Fires(d, prices, p) ==
    LET alert == d[p[1]].list[p[2]]
        current_price == PriceOf(prices, alert.coin)
    IN  /\ Reached(d, prices, p)
        /\ ~alert.triggered
        /\ current_price > 0
        /\ ConditionMet(alert, current_price)

\* self.alerts after the evaluation loop (as far as it got)
Evaluated(d, prices) ==
    [b \in DOMAIN d |->
        [d[b] EXCEPT !.list = [i \in DOMAIN d[b].list |->
            IF Fires(d, prices, <<b, i>>)
            THEN [d[b].list[i] EXCEPT !.triggered = TRUE]
            ELSE d[b].list[i]]]]

\* the list `triggered`: (alert, current_price) of the alerts that fired, in order
RECURSIVE TriggeredFrom(_, _, _, _)
TriggeredFrom(d, prices, b, i) ==
    IF b > Len(d) THEN <<>>
    ELSE IF i > Len(d[b].list) THEN TriggeredFrom(d, prices, b + 1, 1)
    ELSE (IF Fires(d, prices, <<b, i>>)
          THEN <<[alert |-> [d[b].list[i] EXCEPT !.triggered = TRUE],
                  current_price |-> PriceOf(prices, d[b].list[i].coin)]>>
          ELSE <<>>) \o TriggeredFrom(d, prices, b, i + 1)

TriggeredList(d, prices) == TriggeredFrom(d, prices, 1, 1)

\* a filter whose test of the flag is inverted: it keeps the triggered alerts only
RetainedIfTriggered(alert, current_time) ==
    /\ alert.triggered
    /\ (alert.created_at - current_time) * SecondsPerHour < GraceSeconds

\* the age test of _cleanup_triggered_alerts, as written: created_at - current_time
Retained(alert, current_time) ==
    \/ ~alert.triggered
    \/ (alert.created_at - current_time) * SecondsPerHour < GraceSeconds

\* _cleanup_triggered_alerts
Cleanup(d, current_time) ==
    [b \in DOMAIN d |->
        [d[b] EXCEPT !.list = LET Keep(a) == Retained(a, current_time)
                              IN  SelectSeq(d[b].list, Keep)]]

NoPrices == <<>>
\* no get_crypto_data call yet, for any symbol an alert can hold
NoCounts == [c \in Coins \cup {r[2] : r \in ApiRequests} |-> 0]

Bump(n) == IF n >= 2 THEN 2 ELSE n + 1

\* check_alerts up to the await of get_multiple_prices, or its return when no coin is due
SweepStart ==
    /\ Counted
    /\ UNCHANGED <<attempts, sendFailed>>
    /\ loop' = [swept |-> TRUE, sleeps |-> 0]
    /\ pc = "sweep"
    /\ fetchCount' = NoCounts
    /\ current_prices' = NoPrices
    /\ IF CoinsToCheck(alerts) = {}
       THEN /\ coins' = <<>>
            /\ startCoins' = {}
            /\ triggered' = <<>>
            /\ pc' = "notify"
       ELSE /\ coins' \in CoinsList(alerts)
            /\ startCoins' = {a.coin : a \in {x \in AllAlerts(alerts) : ~x.triggered}}
            /\ triggered' = <<>>
            /\ pc' = "fetch"
    /\ UNCHANGED <<alerts, next_id, now, saveTasks, file, returned, reported,
                   fileMem>>

\* get_multiple_prices: one await of get_crypto_data(coin); prices[coin] = data['price']
FetchPrice(price) ==
    /\ Counted
    /\ UNCHANGED <<attempts, sendFailed, loop>>
    /\ pc = "fetch"
    /\ coins # <<>>
    /\ current_prices' = [c \in DOMAIN current_prices \cup {Head(coins)} |->
                            IF c = Head(coins) THEN price ELSE current_prices[c]]
    /\ fetchCount' = [fetchCount EXCEPT ![Head(coins)] = Bump(@)]
    /\ coins' = Tail(coins)
    /\ UNCHANGED <<alerts, next_id, now, pc, triggered, saveTasks, file, returned,
                   reported, startCoins, fileMem>>

\* check_alerts from the return of get_multiple_prices to its own return
Evaluate ==
    /\ Counted
    /\ UNCHANGED <<attempts, sendFailed, loop>>
    /\ pc = "fetch"
    /\ coins = <<>>
    /\ RaisePositions(alerts, current_prices) = {}
    /\ LET result == TriggeredList(alerts, current_prices)
       IN  /\ triggered' = result
           /\ reported' = [id \in DOMAIN reported |->
                             IF \E k \in DOMAIN result : result[k].alert.id = id
                             THEN Bump(reported[id]) ELSE reported[id]]
           /\ IF result # <<>>
              THEN /\ Len(saveTasks) < MaxSaveTasks
                   /\ alerts' = Cleanup(Evaluated(alerts, current_prices), now)
                   /\ saveTasks' = CreateSaveTask(saveTasks, next_id)
              ELSE /\ alerts' = alerts
                   /\ saveTasks' = saveTasks
    /\ pc' = "notify"
    /\ current_prices' = NoPrices
    /\ startCoins' = {}
    /\ fetchCount' = NoCounts
    /\ UNCHANGED <<next_id, now, coins, file, returned, fileMem>>

\* the evaluation loop raises TypeError on a None price: the alerts before it stay
\* triggered, `triggered` is lost, monitor_alerts logs "Error in alert monitoring"
EvaluateRaises ==
    /\ Counted
    /\ UNCHANGED <<attempts, sendFailed, loop>>
    /\ pc = "fetch"
    /\ coins = <<>>
    /\ RaisePositions(alerts, current_prices) # {}
    /\ alerts' = Evaluated(alerts, current_prices)
    /\ triggered' = <<>>
    /\ pc' = "except"
    /\ current_prices' = NoPrices
    /\ startCoins' = {}
    /\ fetchCount' = NoCounts
    /\ UNCHANGED <<next_id, now, coins, saveTasks, file, returned, reported, fileMem>>

\* ----------------------------------------------------------- monitor_alerts
\* send_message was awaited for the alert with this id
Attempted(history, id) == IF Len(history) > MaxId THEN history ELSE Append(history, id)

\* send_message(chat_id=...) raises Forbidden for a user who blocked the bot, and
\* returns for the others
SendRaises(chat_id) == chat_id \in Blocked

\* a loop with no try around send_message: the exception ends the for loop and
\* reaches the except block of the while loop
NotifyAbortsOnFailure(ok) ==
    /\ Counted
    /\ UNCHANGED loop
    /\ pc = "notify"
    /\ triggered # <<>>
    /\ ok = ~SendRaises(Head(triggered).alert.user_id)
    /\ attempts' = Attempted(attempts, Head(triggered).alert.id)
    /\ sendFailed' = IF ok THEN sendFailed ELSE sendFailed \cup {Head(triggered).alert.id}
    /\ triggered' = IF ok THEN Tail(triggered) ELSE <<>>
    /\ pc' = IF ok THEN "notify" ELSE "except"
    /\ UNCHANGED <<alerts, next_id, now, coins, current_prices, saveTasks, file,
                   returned, reported, startCoins, fetchCount, fileMem>>

\* a loop that marks the alert non-triggered again when send_message raised
NotifyRevertsOnFailure(ok) ==
    /\ Counted
    /\ UNCHANGED loop
    /\ pc = "notify"
    /\ triggered # <<>>
    /\ ok = ~SendRaises(Head(triggered).alert.user_id)
    /\ attempts' = Attempted(attempts, Head(triggered).alert.id)
    /\ sendFailed' = IF ok THEN sendFailed ELSE sendFailed \cup {Head(triggered).alert.id}
    /\ triggered' = Tail(triggered)
    /\ alerts' = IF ok THEN alerts
                 ELSE [b \in DOMAIN alerts |->
                         [alerts[b] EXCEPT !.list = [i \in DOMAIN alerts[b].list |->
                             IF alerts[b].list[i].id = Head(triggered).alert.id
                             THEN [alerts[b].list[i] EXCEPT !.triggered = FALSE]
                             ELSE alerts[b].list[i]]]]
    /\ UNCHANGED <<next_id, now, pc, coins, current_prices, saveTasks, file,
                   returned, reported, startCoins, fetchCount, fileMem>>

\* one pass of `for alert, current_price in triggered_alerts`: the message is built,
\* send_message is awaited and returns (ok) or raises (~ok, "Error sending alert
\* notification" is logged), and the loop goes on with the next pair
Notify(ok) ==
    /\ Counted
    /\ UNCHANGED loop
    /\ pc = "notify"
    /\ triggered # <<>>
    /\ ok = ~SendRaises(Head(triggered).alert.user_id)
    /\ attempts' = Attempted(attempts, Head(triggered).alert.id)
    /\ sendFailed' = IF ok THEN sendFailed ELSE sendFailed \cup {Head(triggered).alert.id}
    /\ triggered' = Tail(triggered)
    /\ UNCHANGED <<alerts, next_id, now, pc, coins, current_prices, saveTasks, file,
                   returned, reported, startCoins, fetchCount, fileMem>>

\* a loop that goes to the next sweep with no sleep after the for loop
NotifyDoneSkipsSleep ==
    /\ Counted
    /\ pc = "notify"
    /\ triggered = <<>>
    /\ pc' = "sweep"
    /\ sendFailed' = {}
    /\ UNCHANGED <<attempts, loop>>
    /\ UNCHANGED <<alerts, next_id, now, coins, current_prices, triggered, saveTasks,
                   file, returned, reported, startCoins, fetchCount, fileMem>>

\* the for loop is over: await asyncio.sleep(60) of the try block
NotifyDone ==
    /\ Counted
    /\ pc = "notify"
    /\ triggered = <<>>
    /\ pc' = "sleep"
    /\ sendFailed' = {}
    /\ UNCHANGED <<attempts, loop>>
    /\ UNCHANGED <<alerts, next_id, now, coins, current_prices, triggered, saveTasks,
                   file, returned, reported, startCoins, fetchCount, fileMem>>

\* a loop whose except block does not go on
WakeAfterSuccess ==
    /\ Counted
    /\ UNCHANGED <<attempts, sendFailed>>
    /\ loop' = [loop EXCEPT !.sleeps = Bump(@)]
    /\ pc = "sleep"
    /\ pc' = "sweep"
    /\ UNCHANGED <<alerts, next_id, now, coins, current_prices, triggered, saveTasks,
                   file, returned, reported, startCoins, fetchCount, fileMem>>

\* asyncio.sleep(60) returns, in the try block or in the except block
Wake ==
    /\ Counted
    /\ UNCHANGED <<attempts, sendFailed>>
    /\ loop' = [loop EXCEPT !.sleeps = Bump(@)]
    /\ pc \in {"sleep", "except"}
    /\ pc' = "sweep"
    /\ UNCHANGED <<alerts, next_id, now, coins, current_prices, triggered, saveTasks,
                   file, returned, reported, startCoins, fetchCount, fileMem>>

\* the wall clock advances
Tick ==
    /\ Counted
    /\ UNCHANGED <<attempts, sendFailed, loop>>
    /\ now < MaxTicks * TickHours
    /\ now' = now + TickHours
    /\ UNCHANGED <<alerts, next_id, pc, coins, current_prices, triggered, saveTasks,
                   file, returned, reported, startCoins, fetchCount, fileMem>>

\* ------------------------------------------------------------ specification
\* AlertSystem.__init__ with no storage file, and run(): monitor_alerts is scheduled
Init ==
    /\ alerts = <<>>
    /\ next_id = 1
    /\ now = 0
    /\ pc = "sweep"
    /\ coins = <<>>
    /\ current_prices = NoPrices
    /\ triggered = <<>>
    /\ saveTasks = <<>>
    /\ file = NoFile
    /\ returned = <<>>
    /\ reported = [id \in 1..(MaxId + 1) |-> 0]
    /\ startCoins = {}
    /\ fetchCount = NoCounts
    /\ fileMem = NoMem
    /\ attempts = <<>>
    /\ sendFailed = {}
    /\ loop = LoopStarts
    /\ life = FirstLife

Next ==
    \/ \E r \in Requests : add_alert(r[1], r[2], r[3], r[4])
    \/ \E u \in Owners, id \in 1..(MaxId + 1) : remove_alert(u, id)
    \/ \E i \in 1..MaxSaveTasks : SaveOpen(i)
    \/ \E i \in 1..MaxSaveTasks : SaveWrite(i)
    \/ \E i \in 1..MaxSaveTasks : SaveFail(i)
    \/ SweepStart
    \/ \E p \in ObservedPrices : FetchPrice(p)
    \/ Evaluate
    \/ EvaluateRaises
    \/ \E ok \in BOOLEAN : Notify(ok)
    \/ NotifyDone
    \/ Wake

Spec == Init /\ [][Next]_vars

\* the same program over more than a day: the clock advances
NextClock == Next \/ Tick

SpecClock == Init /\ [][NextClock]_vars

\* the same program driven by the /setalert messages as typed
NextCommands ==
    \/ \E c \in Commands : set_alert(c[1], c[2])
    \/ \E u \in Owners, id \in 1..(MaxId + 1) : remove_alert(u, id)
    \/ \E i \in 1..MaxSaveTasks : SaveOpen(i)
    \/ \E i \in 1..MaxSaveTasks : SaveWrite(i)
    \/ \E i \in 1..MaxSaveTasks : SaveFail(i)
    \/ SweepStart
    \/ \E p \in ObservedPrices : FetchPrice(p)
    \/ Evaluate
    \/ EvaluateRaises
    \/ \E ok \in BOOLEAN : Notify(ok)
    \/ NotifyDone
    \/ Wake

SpecCommands == Init /\ [][NextCommands]_vars

\* the store called directly, with the rest of the program around it
NextApi ==
    \/ \E r \in ApiRequests : add_alert(r[1], r[2], r[3], r[4])
    \/ \E u \in ApiOwners, id \in 1..(MaxId + 1) : remove_alert(u, id)
    \/ \E i \in 1..MaxSaveTasks : SaveOpen(i)
    \/ \E i \in 1..MaxSaveTasks : SaveWrite(i)
    \/ \E i \in 1..MaxSaveTasks : SaveFail(i)
    \/ SweepStart
    \/ \E p \in ObservedPrices : FetchPrice(p)
    \/ Evaluate
    \/ EvaluateRaises
    \/ \E ok \in BOOLEAN : Notify(ok)
    \/ NotifyDone
    \/ Wake

SpecApi == Init /\ [][NextApi]_vars

\* the same program on a storage whose open and write never fail
NextWritesSucceed ==
    \/ \E r \in Requests : add_alert(r[1], r[2], r[3], r[4])
    \/ \E u \in Owners, id \in 1..(MaxId + 1) : remove_alert(u, id)
    \/ \E i \in 1..MaxSaveTasks : SaveOpen(i)
    \/ \E i \in 1..MaxSaveTasks : SaveWrite(i)
    \/ SweepStart
    \/ \E p \in ObservedPrices : FetchPrice(p)
    \/ Evaluate
    \/ EvaluateRaises
    \/ \E ok \in BOOLEAN : Notify(ok)
    \/ NotifyDone
    \/ Wake

SpecWritesSucceed == Init /\ [][NextWritesSucceed]_vars

\* the process ends and starts again: AlertSystem.__init__ loads the file, run()
\* schedules monitor_alerts; the tasks of the old process are gone. An exception out
\* of __init__ would end the new process before run()
Restart ==
    /\ ~life.restarted
    /\ life' = [restarted |-> TRUE, steps |-> 0]
    /\ alerts' = LoadedStore(file).alerts
    /\ next_id' = LoadedStore(file).next_id
    /\ pc' = IF LoadedStore(file).raised THEN "crashed" ELSE "sweep"
    /\ coins' = <<>>
    /\ current_prices' = NoPrices
    /\ triggered' = <<>>
    /\ saveTasks' = <<>>
    /\ returned' = <<>>
    /\ reported' = [id \in DOMAIN reported |-> 0]
    /\ startCoins' = {}
    /\ fetchCount' = NoCounts
    /\ attempts' = <<>>
    /\ sendFailed' = {}
    /\ loop' = LoopStarts
    /\ UNCHANGED <<now, file, fileMem>>

\* the process starts again once, and is followed for MaxStepsAfterLoad steps
NextRestart == Next \/ Restart

SpecRestart == Init /\ [][NextRestart]_vars

\* the step monitor_alerts is waiting to take
MonitorStep ==
    \/ SweepStart
    \/ \E p \in ObservedPrices : FetchPrice(p)
    \/ Evaluate
    \/ EvaluateRaises
    \/ \E ok \in BOOLEAN : Notify(ok)
    \/ NotifyDone
    \/ Wake

\* a step of a save task
SaveStep == \E i \in 1..MaxSaveTasks : SaveOpen(i) \/ SaveWrite(i) \/ SaveFail(i)

\* the event loop runs every task that is ready, and every await of the loop and of a
\* save task ends (the requests, the file calls and the sleep are bounded in time)
Fairness ==
    /\ WF_vars(MonitorStep)
    /\ WF_vars(SaveStep)

FairSpec == Init /\ [][Next]_vars /\ Fairness

\* ------------------------------------------------------------------ claims
Ids(d) == {a.id : a \in AllAlerts(d)}

AlertById(d, id) == CHOOSE a \in AllAlerts(d) : a.id = id

\* a step of check_alerts that runs the evaluation loop to its end
EvaluationCompletes == pc = "fetch" /\ pc' = "notify"

\* a step of check_alerts that runs the evaluation loop until it raises
EvaluationRaises == pc = "fetch" /\ pc' = "except"

\* C1: the ids add_alert returns on one store are strictly increasing, hence pairwise
\* distinct, whatever removals and sweeps happen in between
C1_IdsStrictlyIncreasing ==
    \A i, j \in DOMAIN returned : i < j => returned[i] < returned[j]

\* two ids were returned and the alert of the first one is no longer stored
C1_Witness ==
    /\ Len(returned) = 2
    /\ returned[1] \notin Ids(alerts)
    /\ returned[2] \in Ids(alerts)

\* C2: remove_alert(user_id, alert_id) leaves every alert of another owner in place, and
\* when no alert of user_id has the id it returns False, leaves the alerts as they are
\* and creates no save task; next_id changes in no step but an add_alert
C2_RemoveForeign ==
    /\ [](\A u \in Owners, id \in 1..(MaxId + 1) :
            LET out == RemoveOutcome(alerts, u, id)
            IN  /\ \A a \in AllAlerts(alerts) :
                      a.user_id # u => a \in AllAlerts(out.alerts)
                /\ (~\E a \in AllAlerts(alerts) : a.id = id /\ a.user_id = u) =>
                      /\ out.result = FALSE
                      /\ out.alerts = alerts
                      /\ out.save = FALSE)
    /\ [][next_id' # next_id => Len(returned') = Len(returned) + 1]_vars

\* both owners hold an alert, so each can ask to remove the other's id
C2_Witness ==
    \E a, b \in AllAlerts(alerts) :
        /\ a.user_id = IntOwner(1)
        /\ b.user_id = IntOwner(2)
        /\ ~RemoveOutcome(alerts, IntOwner(2), a.id).result
        /\ ~RemoveOutcome(alerts, IntOwner(1), b.id).result

\* C3: an alert is returned by at most one sweep; once its triggered flag is true the
\* flag stays true while the alert is stored, and no later sweep returns the alert
C3_TriggeredOnce ==
    /\ [](\A id \in DOMAIN reported : reported[id] <= 1)
    /\ [][\A a \in AllAlerts(alerts) : a.triggered =>
             /\ \A b \in AllAlerts(alerts') : b.id = a.id => b.triggered
             /\ \A k \in DOMAIN triggered' : triggered'[k].alert.id = a.id =>
                   \E j \in DOMAIN triggered : triggered[j].alert.id = a.id]_vars

\* a sweep has fetched a price that meets the condition of an alert an earlier sweep
\* returned
C3_Witness ==
    /\ pc = "fetch"
    /\ coins = <<>>
    /\ \E a \in AllAlerts(alerts) :
          /\ a.triggered
          /\ reported[a.id] = 1
          /\ PriceOf(current_prices, a.coin) > 0
          /\ ConditionMet(a, PriceOf(current_prices, a.coin))

\* the alert with this id is triggered after the step, or was returned by it
BecomesTriggered(id) ==
    \/ \E b \in AllAlerts(alerts') : b.id = id /\ b.triggered
    \/ \E k \in DOMAIN triggered' : triggered'[k].alert.id = id

\* the trigger rule of the claim: inclusive in both directions
TriggerRule(condition, threshold, observedPrice) ==
    \/ condition = "above" /\ observedPrice >= threshold
    \/ condition = "below" /\ observedPrice <= threshold

PendingSymbols(d) == {a.coin : a \in {x \in AllAlerts(d) : ~x.triggered}}

\* now - created_at, in seconds
AgeSeconds(a) == (now' - a.created_at) * SecondsPerHour

\* C5: after a sweep no triggered alert aged 24 hours or more is stored, and every
\* triggered alert younger than 24 hours that was stored still is
C5_Expiry ==
    [][(EvaluationCompletes \/ (pc = "sweep" /\ pc' = "notify")) =>
          /\ \A a \in AllAlerts(alerts') : a.triggered => AgeSeconds(a) < GraceSeconds
          /\ \A a \in AllAlerts(alerts) :
                (a.triggered /\ AgeSeconds(a) < GraceSeconds) => a \in AllAlerts(alerts')]_vars

\* C6: a sweep asks for the symbols of the non-triggered alerts, each one once, and for
\* none when there is no such alert; every returned alert carries the price fetched
\* for its symbol
C6_FetchOncePerSymbol ==
    [][/\ (pc = "sweep" /\ pc' = "fetch") =>
             /\ startCoins' = PendingSymbols(alerts)
             /\ startCoins' # {}
       /\ (pc = "sweep" /\ pc' = "notify") =>
             /\ PendingSymbols(alerts) = {}
             /\ fetchCount' = NoCounts
       /\ (EvaluationCompletes \/ EvaluationRaises) =>
             /\ \A c \in Coins : fetchCount[c] = IF c \in startCoins THEN 1 ELSE 0
             /\ DOMAIN current_prices = startCoins
       /\ EvaluationCompletes =>
             \A k \in DOMAIN triggered' :
                triggered'[k].current_price = current_prices[triggered'[k].alert.coin]]_vars

\* two owners' alerts on one symbol were both returned, after one fetch of the symbol
C6_Witness ==
    /\ pc = "notify"
    /\ \E j, k \in DOMAIN triggered :
          /\ triggered[j].alert.user_id # triggered[k].alert.user_id
          /\ triggered[j].alert.coin = triggered[k].alert.coin
          /\ triggered[j].current_price = triggered[k].current_price

\* C7: an evaluation leaves a non-triggered alert whose price is missing, zero or
\* invalid stored and non-triggered, and does not return it
C7_InvalidPriceSkipped ==
    [][(EvaluationCompletes \/ EvaluationRaises) =>
          \A a \in AllAlerts(alerts) :
             (~a.triggered /\ ~(PriceOf(current_prices, a.coin) > 0)) =>
                /\ a \in AllAlerts(alerts')
                /\ \A k \in DOMAIN triggered' : triggered'[k].alert.id # a.id]_vars

\* the prices are in; one alert was added during the wait on a symbol that was not
\* asked for, and its condition would be met by a price of 0
C7_Witness ==
    /\ pc = "fetch"
    /\ coins = <<>>
    /\ \E a \in AllAlerts(alerts) :
          /\ ~a.triggered
          /\ a.coin \notin DOMAIN current_prices
          /\ a.condition = "below"

\* C8: the stored document never holds an alert whose id its next_id has not passed
C8_DocumentIsSnapshot ==
    (file.kind = "text" /\ file.valid) =>
        \A a \in AllAlerts(file.doc.alerts) : a.id < file.doc.next_id

\* C9: a fresh store that loads the document of a write no mutation overlapped holds
\* the alerts and the next_id the writing store held
C9_RoundTrip ==
    [][(Restart /\ fileMem # NoMem) =>
          /\ alerts' = fileMem.alerts
          /\ next_id' = fileMem.next_id]_vars

\* a fresh store has loaded two owners' alerts, one of them triggered
C9_Witness ==
    /\ life = [restarted |-> TRUE, steps |-> 0]
    /\ fileMem # NoMem
    /\ alerts = fileMem.alerts
    /\ next_id = fileMem.next_id
    /\ Len(alerts) = 2
    /\ \E a \in AllAlerts(alerts) : a.triggered

\* C10: whatever a cycle did, raise included, the loop is again and again about to
\* start a sweep, and again and again inside one
C10_LoopNeverEnds ==
    /\ []<>(pc = "sweep")
    /\ []<>(pc \in {"fetch", "notify"})

\* a sweep raised: the loop is in the sleep of its except block
C10_Witness == pc = "except" /\ Ids(alerts) # {}

\* the ids of the pairs of a batch
BatchIds(batch) == {batch[k].alert.id : k \in DOMAIN batch}

\* C11: every alert a sweep returned gets a send_message of its own: the for loop sends
\* the pairs one after the other whether the sends before raised or not, and is left
\* only when each pair was sent
C11_EachAlertAttempted ==
    /\ [](\A id \in DOMAIN reported : reported[id] >= 1 =>
             \/ id \in Range(attempts)
             \/ pc = "notify" /\ id \in BatchIds(triggered))
    /\ [][(pc = "notify" /\ triggered # <<>> /\ (triggered' # triggered \/ pc' # pc)) =>
             /\ attempts' = Append(attempts, Head(triggered).alert.id)
             /\ triggered' = Tail(triggered)
             /\ pc' = "notify"]_vars

\* a batch of two: the first send raised, the second alert was sent all the same
C11_Witness ==
    /\ pc = "notify"
    /\ triggered = <<>>
    /\ Len(attempts) = 2
    /\ attempts[1] \in sendFailed
    /\ attempts[2] \notin sendFailed

\* C12: no alert is sent twice over the run; a send, raised or not, leaves the store as
\* it is (the alert stays triggered), and it is a send of the batch the last sweep
\* returned, for an alert one sweep returned
C12_NoRetry ==
    /\ [](\A i, j \in DOMAIN attempts : i # j => attempts[i] # attempts[j])
    /\ [][Len(attempts') > Len(attempts) =>
             /\ alerts' = alerts
             /\ next_id' = next_id
             /\ attempts'[Len(attempts')] \in BatchIds(triggered)
             /\ reported[attempts'[Len(attempts')]] = 1]_vars

\* a later sweep has fetched a price that meets the condition of an alert whose send
\* raised in an earlier cycle: the alert is stored, triggered, and was sent once
C12_Witness ==
    /\ pc = "fetch"
    /\ coins = <<>>
    /\ \E a \in AllAlerts(alerts) :
          /\ SendRaises(a.user_id)
          /\ a.triggered
          /\ a.id \in Range(attempts)
          /\ PriceOf(current_prices, a.coin) > 0
          /\ ConditionMet(a, PriceOf(current_prices, a.coin))

\* a /setalert message the claim calls valid: three arguments, a condition keyword
\* above or below, a threshold text that reads as a positive number
ValidCommand(args) ==
    /\ Len(args) >= 3
    /\ Lower(args[2]) \in {"above", "below"}
    /\ ~Float(args[3]).raised
    /\ Float(args[3]).v > 0

\* C13: a /setalert message that is not valid leaves alerts and next_id as they are,
\* and after every /setalert each stored alert has a threshold above 0 and the
\* condition above or below
C13_InvalidRejected ==
    [][\A c \in Commands : set_alert(c[1], c[2]) =>
          /\ ValidCommand(c[2]) \/ (alerts' = alerts /\ next_id' = next_id)
          /\ \A a \in AllAlerts(alerts') :
                a.price > 0 /\ a.condition \in {"above", "below"}]_vars

\* the place of an id in the order add_alert returned the ids in
AddOrder(id) == CHOOSE k \in DOMAIN returned : returned[k] = id

\* C14: get_user_alerts(owner) holds exactly the stored alerts of the owner, triggered
\* or not, each once, in the order they were added (the empty list when there is
\* none); the alert of an add_alert is the last of its owner's list as soon as
\* add_alert has returned
C14_ListInInsertionOrder ==
    /\ [](\A u \in Owners :
             LET l == get_user_alerts(alerts, u)
             IN  /\ Range(l) = {a \in AllAlerts(alerts) : a.user_id = u}
                 /\ \A i, j \in DOMAIN l :
                       i < j => /\ l[i].id \in Range(returned)
                                /\ l[j].id \in Range(returned)
                                /\ AddOrder(l[i].id) < AddOrder(l[j].id))
    /\ [][Len(returned') > Len(returned) =>
             \E u \in Owners :
                LET l == get_user_alerts(alerts', u)
                IN  /\ l # <<>>
                    /\ l[Len(l)].id = returned'[Len(returned')]
                    /\ l[Len(l)].user_id = u]_vars

\* an owner's list of two after a sweep that triggered the first one only, and the
\* empty list of the other owner
C14_Witness ==
    /\ pc = "notify"
    /\ Len(get_user_alerts(alerts, IntOwner(1))) = 2
    /\ get_user_alerts(alerts, IntOwner(1))[1].triggered
    /\ ~get_user_alerts(alerts, IntOwner(1))[2].triggered
    /\ get_user_alerts(alerts, IntOwner(2)) = <<>>

\* C15: load_alerts raises nothing to __init__, and a fresh store that finds no file,
\* or a file whose text json.load cannot read, has no alerts and next_id 1
C15_LoadNeverRaises ==
    [][Restart =>
          /\ pc' = "sweep"
          /\ (file.kind = "missing" \/ ~file.valid) =>
                (alerts' = <<>> /\ next_id' = 1)]_vars

\* a fresh store has read a file that holds the head of one document and the tail of
\* another
C15_Witness ==
    /\ life = [restarted |-> TRUE, steps |-> 0]
    /\ file.kind = "text"
    /\ ~file.valid
    /\ file.size > 0
    /\ alerts = <<>>
    /\ next_id = 1
    /\ pc = "sweep"

\* C16: a save task that fails changes neither alerts nor next_id and raises nothing
\* into the monitor loop, which stays where it is with the batch it holds
C16_FailedWriteHarmless ==
    [][(\E i \in 1..MaxSaveTasks : SaveFail(i)) =>
          /\ alerts' = alerts
          /\ next_id' = next_id
          /\ pc' = pc
          /\ triggered' = triggered]_vars

\* every save task so far failed before it opened the file; two add_alert calls and a
\* sweep that triggered an alert worked on the memory all the same
C16_Witness ==
    /\ file = NoFile
    /\ saveTasks = <<>>
    /\ Len(returned) = 2
    /\ next_id = 3
    /\ pc = "notify"
    /\ triggered # <<>>
    /\ \E a \in AllAlerts(alerts) : a.triggered

\* C17: every stored alert has an uppercase symbol, whatever case add_alert was given
C17_SymbolsUppercase ==
    \A a \in AllAlerts(alerts) : a.coin = Upper(a.coin)

\* C18: the alerts an evaluation sets triggered are the alerts of the list it returns,
\* each with the price its threshold was compared with, also when the evaluation
\* raises part-way
C18_TriggeredIffReturned ==
    [][(EvaluationCompletes \/ EvaluationRaises) =>
          /\ \A a \in AllAlerts(alerts) :
                (~a.triggered /\ \E b \in AllAlerts(alerts') : b.id = a.id /\ b.triggered)
                   => a.id \in BatchIds(triggered')
          /\ \A k \in DOMAIN triggered' :
                /\ \E a \in AllAlerts(alerts) :
                      a.id = triggered'[k].alert.id /\ ~a.triggered
                /\ triggered'[k].current_price =
                      PriceOf(current_prices, triggered'[k].alert.coin)]_vars

\* C19: when every save task has written (none is in flight, none failed), the file
\* holds one readable document, and it is the document of the memory: the alerts and
\* the next_id the store holds now
C19_DocumentCurrentAtRest ==
    (saveTasks = <<>> /\ file # NoFile) =>
        /\ file.valid
        /\ JsonLoads(file) = JsonDumps(alerts, next_id)

\* C20: next_id is above the id of every stored alert, in a running store and in one
\* that has just loaded the file
C20_NextIdAboveStored ==
    \A a \in AllAlerts(alerts) : a.id < next_id

\* a step of check_alerts: the collection of the coins, a fetch, or the evaluation
SweepStep ==
    \/ pc = "sweep" /\ pc' # "sweep"
    \/ pc = "fetch" /\ (coins' # coins \/ pc' # "fetch")

\* b is a with its triggered flag kept, or set
SameButTriggered(a, b) ==
    /\ b.id = a.id
    /\ b.user_id = a.user_id
    /\ b.coin = a.coin
    /\ b.condition = a.condition
    /\ b.price = a.price
    /\ b.created_at = a.created_at
    /\ a.triggered => b.triggered

\* C21: a step of a sweep leaves next_id alone, keeps every non-triggered alert, changes
\* no field of an alert but triggered, and that one only from false to true; an alert
\* it removes is triggered and at least 24 hours old; it adds none
C21_SweepFrame ==
    [][SweepStep =>
          /\ next_id' = next_id
          /\ \A a \in AllAlerts(alerts) :
                \/ \E b \in AllAlerts(alerts') : SameButTriggered(a, b)
                \/ a.triggered /\ AgeSeconds(a) >= GraceSeconds
          /\ \A b \in AllAlerts(alerts') :
                \E a \in AllAlerts(alerts) : SameButTriggered(a, b)
          /\ \A u \in Owners :
                Len(get_user_alerts(alerts', u)) <= Len(get_user_alerts(alerts, u))]_vars

\* a sweep has triggered one alert and left a non-triggered one, whose price was not
\* valid or did not meet the condition, in the store
C21_Witness ==
    /\ pc = "notify"
    /\ Len(triggered) = 1
    /\ \E a, b \in AllAlerts(alerts) :
          /\ a.id = triggered[1].alert.id
          /\ a.triggered
          /\ ~b.triggered
          /\ reported[b.id] = 0

\* the list without its elements that have the id
Without(l, id) ==
    LET Other(a) == a.id # id
    IN  SelectSeq(l, Other)

\* C22: remove_alert(owner, id) for an alert the owner holds returns True, asks for one
\* save, and takes that one alert out of the owner's bucket: the rest of the bucket
\* keeps its order and every other bucket is as it was; the step leaves next_id alone
\* and creates one save task
C22_RemoveExactlyOne ==
    /\ [](\A u \in Owners, id \in 1..(MaxId + 1) :
             (\E a \in Range(get_user_alerts(alerts, u)) : a.id = id) =>
                LET out == RemoveOutcome(alerts, u, id)
                IN  /\ out.result = TRUE
                    /\ out.save = TRUE
                    /\ get_user_alerts(out.alerts, u) =
                          Without(get_user_alerts(alerts, u), id)
                    /\ Len(get_user_alerts(out.alerts, u)) =
                          Len(get_user_alerts(alerts, u)) - 1
                    /\ DOMAIN out.alerts = DOMAIN alerts
                    /\ \A b \in DOMAIN alerts :
                          alerts[b].key # BucketKey(u) => out.alerts[b] = alerts[b])
    /\ [][(\E u \in Owners, id \in 1..(MaxId + 1) :
               remove_alert(u, id) /\ alerts' # alerts) =>
             /\ next_id' = next_id
             /\ Len(saveTasks') = Len(saveTasks) + 1]_vars

\* the first of an owner's two alerts was removed: the store has the owner's bucket
\* only, with the second alert in it, and the save task of the removal is in flight
C22_Witness ==
    /\ Len(returned) = 2
    /\ Len(alerts) = 1
    /\ Len(alerts[1].list) = 1
    /\ alerts[1].list[1].id = returned[2]
    /\ saveTasks # <<>>
    /\ pc = "notify"

\* the price source failed for the coin: get_multiple_prices stored 0 for it, or the
\* source answered with no price (None)
SourceFailed(prices, coin) == coin \in DOMAIN prices /\ ~(prices[coin] > 0)

\* C23: when the price source failed for a symbol, the evaluation still runs to its
\* end, and it evaluates every non-triggered alert of the other symbols: those whose
\* price meets their condition are triggered and returned
C23_FailureDoesNotAbort ==
    [][(pc = "fetch" /\ coins = <<>> /\ pc' # "fetch"
          /\ \E c \in DOMAIN current_prices : SourceFailed(current_prices, c)) =>
          /\ pc' = "notify"
          /\ \A a \in AllAlerts(alerts) :
                (/\ ~a.triggered
                 /\ PriceOf(current_prices, a.coin) > 0
                 /\ ConditionMet(a, PriceOf(current_prices, a.coin)))
                   => a.id \in BatchIds(triggered')]_vars

\* the step ends in the await of send_message for the alert with this id: the loop has
\* taken the next pair of the batch
SendStarts(id) ==
    /\ pc' = "notify"
    /\ triggered' # <<>>
    /\ triggered' # triggered
    /\ Head(triggered').alert.id = id

\* C24: send_message is started only for an alert that is stored: once remove_alert
\* has returned True for an alert of the batch (no alert leaves the store another
\* way here), the loop does not send that alert's notification
C24_NoSendAfterRemove ==
    [][\A id \in 1..(MaxId + 1) : SendStarts(id) => id \in Ids(alerts')]_vars

\* C25: for user ids that are ints or strs, get_user_alerts(owner) holds only alerts
\* whose user_id is that owner, and remove_alert(owner, id) returns True only for an
\* alert whose user_id is that owner: the int 1 and the str "1" are two owners
C25_OwnersNeverShare ==
    \A u \in ApiOwners :
        /\ \A a \in Range(get_user_alerts(alerts, u)) : a.user_id = u
        /\ \A id \in 1..(MaxId + 1) :
              RemoveOutcome(alerts, u, id).result =>
                 \E a \in AllAlerts(alerts) : a.id = id /\ a.user_id = u

\* C26 as stated: every sweep, the first one after the loop starts included, begins
\* after exactly one sleep since the loop started or the sweep before it began
C26_SleepThenSweep ==
    [][(pc = "sweep" /\ pc' # "sweep" /\ pc' # "crashed") => loop.sleeps = 1]_vars

\* C26: the loop is sweep-then-sleep: the first sweep after the loop starts begins
\* with no sleep before it, and between any two consecutive sweeps the loop sleeps
\* exactly once
C26_SweepThenSleep ==
    /\ [][(pc = "sweep" /\ pc' # "sweep" /\ pc' # "crashed") =>
            loop.sleeps = IF loop.swept THEN 1 ELSE 0]_vars
    /\ [](pc \in {"fetch", "notify", "sleep", "except"} => loop.swept /\ loop.sleeps = 0)

\* a sweep returned an alert, the loop slept once and is about to sweep again
C26_Witness ==
    /\ pc = "sweep"
    /\ loop = [swept |-> TRUE, sleeps |-> 1]
    /\ \E id \in DOMAIN reported : reported[id] = 1

====
